---- MODULE Spec2Model ----
(***************************************************************************)
(* Model of workspaces/vfs-node/src/index.ts (class NodeVFS): the          *)
(* jail-enforcing path resolver (_locOK, _validatePath, _fsPath), the      *)
(* operations that hand a resolved path to the host, and the watch         *)
(* multiplexer (_watch, _onWatchEvent).                                    *)
(*                                                                         *)
(* A JavaScript string is a sequence of one-character strings, so that     *)
(* concatenation, startsWith, split and path.join are computed on the      *)
(* characters as the code computes them.                                   *)
(***************************************************************************)
EXTENDS Naturals, Sequences, FiniteSets

VARIABLES
  links,      \* host tree: link slot -> target string (NoLink: no entry there)
  pc,         \* position of the one operation in flight
  op,         \* the operation in flight
  arg,        \* its caller-supplied segments
  thruLast,   \* _validatePath's thruLast parameter
  src,        \* _validatePath: the work list
  i,          \* _validatePath: loop index (0-based, as in the code)
  p,          \* _validatePath: running path
  strict,     \* _validatePath: per-step check flag
  depth,      \* _validatePath: links met so far
  out,        \* what _validatePath / _fsPath produced
  linkArg,    \* symlink only: the target segments and the relative flag
  hostCall,   \* the host call the operation issued
  hostErr,    \* the code that host call failed with ("" when it succeeded)
  result,     \* what the operation gave its caller
  lastLink,   \* history: the link _validatePath read last in this call
  watchCallbacks, \* this._watchCallbacks: the registered entries
  watcher,        \* this._watcher: a subscription handle, or Undefined
  alive,          \* host: the native subscriptions that exist
  created,        \* host: how many native subscriptions were ever created
  regState,       \* each watch call's position
  regGlob,        \* each entry's glob
  unsubCalls,     \* how often each entry's unsubscribe function was invoked
  closing,        \* host: the handles whose unsubscribe() is in progress
  rejected,       \* the entries whose unsubscribe function raised, with the error
  notified,       \* history: what the last native notification did
  errOrigin,      \* the value a host call or a lower layer raised
  errNow,         \* that value as it stands after the layers crossed so far
  errFirst,       \* history: what the first normalizing layer made of it
  errLayers,      \* how many normalizing layers it has crossed
  stOp,           \* the streaming operation called
  stSignal,       \* its AbortSignal: none given, not yet aborted, aborted
  stGen,          \* gen(): the promise of the host stream
  stOut,          \* out: the PassThrough the wrapper returns
  stWeb,          \* the web stream handed to the caller
  stLocked,       \* whether the consumer holds a reader / writer of it
  stHost,         \* s: the host file stream
  stPipe,         \* which way data is piped between s and out
  stUncaught,     \* errors emitted with no listener, rejections nobody handles
  stWritten,      \* the chunks the consumer wrote
  stBuffer,       \* the chunks that sit in out
  stFile,         \* write: the chunks the host file stream received
  stRead,         \* read: the chunks the consumer received
  stFailed,       \* history: the failure that happened while the stream was live
  stCancelled     \* history: the signal was triggered while the stream was live

pathVars == <<links, pc, op, arg, thruLast, src, i, p, strict, depth, out,
              linkArg, hostCall, hostErr, result, lastLink>>

watchVars == <<watchCallbacks, watcher, alive, created, regState, regGlob,
               unsubCalls, closing, rejected, notified>>

errVars == <<errOrigin, errNow, errFirst, errLayers>>

streamVars == <<stOp, stSignal, stGen, stOut, stWeb, stLocked, stHost, stPipe,
                stUncaught, stWritten, stBuffer, stFile, stRead, stFailed, stCancelled>>

nonPathVars == <<watchVars, errVars, streamVars>>
nonWatchVars == <<pathVars, errVars, streamVars>>
nonErrVars == <<pathVars, watchVars, streamVars>>
nonStreamVars == <<pathVars, watchVars, errVars>>

vars == <<pathVars, watchVars, errVars, streamVars>>

----------------------------------------------------------------------------
(* Strings *)

SEP == "/"

StartsWith(s, t) == Len(s) >= Len(t) /\ SubSeq(s, 1, Len(t)) = t

RECURSIVE SplitRec(_, _, _)
SplitRec(s, k, cur) ==
  IF k > Len(s) THEN <<cur>>
  ELSE IF s[k] = SEP THEN <<cur>> \o SplitRec(s, k + 1, <<>>)
  ELSE SplitRec(s, k + 1, Append(cur, s[k]))

\* s.split(path.sep)
Split(s) == SplitRec(s, 1, <<>>)

RECURSIVE JoinSep(_)
\* parts.join(path.sep)
JoinSep(parts) ==
  IF Len(parts) = 0 THEN <<>>
  ELSE IF Len(parts) = 1 THEN parts[1]
  ELSE parts[1] \o <<SEP>> \o JoinSep(Tail(parts))

DOT == <<".">>
DOTDOT == <<".", ".">>

RECURSIVE NormStack(_, _)
\* posix normalizeString on the components of an absolute path: empty and
\* "." components are dropped, ".." removes the last kept component and is
\* itself dropped at the root.
NormStack(parts, stack) ==
  IF Len(parts) = 0 THEN stack
  ELSE LET c == Head(parts) IN
       IF c = <<>> \/ c = DOT THEN NormStack(Tail(parts), stack)
       ELSE IF c = DOTDOT
            THEN NormStack(Tail(parts),
                           IF Len(stack) = 0 THEN stack
                           ELSE SubSeq(stack, 1, Len(stack) - 1))
            ELSE NormStack(Tail(parts), Append(stack, c))

\* the absolute path string of a component stack
OfStack(stack) == <<SEP>> \o JoinSep(stack)

\* path.join(q, '..') for an absolute q: path.normalize(q + '/..')
PathJoinParent(q) == OfStack(NormStack(Split(q \o <<SEP>> \o DOTDOT), <<>>))

\* path.isAbsolute
IsAbsolute(s) == Len(s) > 0 /\ s[1] = SEP

SetMax(S) == CHOOSE x \in S : \A y \in S : y <= x

\* path.parse(s) (posix): root, dir and base
PathParse(s) ==
  LET abs == IsAbsolute(s)
      lo  == IF abs THEN 2 ELSE 1
      E   == {k \in lo..Len(s) : s[k] # SEP}
  IN  IF E = {}
      THEN [root |-> IF abs THEN <<SEP>> ELSE <<>>,
            dir  |-> IF abs THEN <<SEP>> ELSE <<>>,
            base |-> <<>>]
      ELSE LET e   == SetMax(E)
               Sps == {k \in lo..e : s[k] = SEP}
           IN  IF Sps = {}
               THEN [root |-> IF abs THEN <<SEP>> ELSE <<>>,
                     dir  |-> IF abs THEN <<SEP>> ELSE <<>>,
                     base |-> SubSeq(s, lo, e)]
               ELSE [root |-> IF abs THEN <<SEP>> ELSE <<>>,
                     dir  |-> SubSeq(s, 1, SetMax(Sps) - 1),
                     base |-> SubSeq(s, SetMax(Sps) + 1, e)]

----------------------------------------------------------------------------
(* The host tree *)

root  == <<"r", "o", "o", "t">>
rootx == <<"r", "o", "o", "t", "x">>
sub   == <<"s", "u", "b">>
etc   == <<"e", "t", "c">>
a     == <<"a">>
b     == <<"b">>
f     == <<"f">>
y     == <<"y">>

\* this._base: the real path of the base directory
Base == OfStack(<<root>>)

\* this._root: path.parse(this._base).root
Root == PathParse(Base).root

\* directories and regular files of the host tree; they are not links
Dirs == {OfStack(<<>>), Base, OfStack(<<root, sub>>), OfStack(<<etc>>),
         OfStack(<<rootx>>), OfStack(<<rootx, y>>)}
Files == {OfStack(<<root, f>>)}

NoLink == <<>>

SlotA  == OfStack(<<root, a>>)
SlotB  == OfStack(<<root, b>>)
SlotSB == OfStack(<<root, sub, b>>)
LinkSlots == {SlotA, SlotB, SlotSB}

\* the link targets a slot may hold (what readlink returns for it)
TargetsOf(slot) ==
  IF slot = SlotA
  THEN {sub, b, a, JoinSep(<<DOTDOT, etc>>), JoinSep(<<DOTDOT, DOTDOT, etc>>),
        OfStack(<<root, sub>>), OfStack(<<etc>>), OfStack(<<root, a>>),
        OfStack(<<rootx, y>>)}
  ELSE IF slot = SlotB
  THEN {a, JoinSep(<<DOT, sub>>)}
  ELSE {JoinSep(<<DOTDOT, a>>)}

Layouts == {L \in [LinkSlots -> UNION {TargetsOf(s) : s \in LinkSlots} \cup {NoLink}] :
              \A s \in LinkSlots : L[s] = NoLink \/ L[s] \in TargetsOf(s)}

\* what the host tree holds at a location given as a component stack
NodeAt(L, stack) ==
  LET s == OfStack(stack) IN
  IF s \in Dirs THEN "dir"
  ELSE IF s \in Files THEN "file"
  ELSE IF s \in LinkSlots /\ L[s] # NoLink THEN "link"
  ELSE "none"

NonEmpty(c) == c # <<>>

RECURSIVE KWalk(_, _, _, _)
\* the host's own path walk (every link followed), from directory `stack`
\* over `comps`: the location reached, or the error code
KWalk(L, stack, comps, fuel) ==
  IF Len(comps) = 0 THEN [err |-> "", at |-> stack]
  ELSE LET c == Head(comps)
           rest == Tail(comps)
       IN
       IF NodeAt(L, stack) # "dir" THEN [err |-> "ENOTDIR", at |-> stack]
       ELSE IF c = <<>> \/ c = DOT THEN KWalk(L, stack, rest, fuel)
       ELSE IF c = DOTDOT
            THEN KWalk(L, IF Len(stack) = 0 THEN stack
                          ELSE SubSeq(stack, 1, Len(stack) - 1), rest, fuel)
       ELSE LET kind == NodeAt(L, Append(stack, c)) IN
            IF kind = "none" THEN [err |-> "ENOENT", at |-> Append(stack, c)]
            ELSE IF kind = "link"
                 THEN IF fuel = 0 THEN [err |-> "ELOOP", at |-> stack]
                      ELSE LET t == L[OfStack(Append(stack, c))] IN
                           KWalk(L, IF IsAbsolute(t) THEN <<>> ELSE stack,
                                 Split(t) \o rest, fuel - 1)
                 ELSE KWalk(L, Append(stack, c), rest, fuel)

\* fs.promises.readlink(q): the target when q names a link; EINVAL when it
\* names something else; ENOENT / ENOTDIR when the walk to it fails
HostReadlink(L, q) ==
  LET parts == SelectSeq(Split(q), NonEmpty) IN
  IF Len(parts) = 0 THEN [err |-> "EINVAL", target |-> <<>>]
  ELSE LET d == KWalk(L, <<>>, SubSeq(parts, 1, Len(parts) - 1), 40)
           last == parts[Len(parts)]
       IN
       IF d.err # "" THEN [err |-> d.err, target |-> <<>>]
       ELSE IF NodeAt(L, d.at) # "dir" THEN [err |-> "ENOTDIR", target |-> <<>>]
       ELSE IF last = DOT \/ last = DOTDOT THEN [err |-> "EINVAL", target |-> <<>>]
       ELSE LET kind == NodeAt(L, Append(d.at, last)) IN
            IF kind = "link" THEN [err |-> "", target |-> L[OfStack(Append(d.at, last))]]
            ELSE IF kind = "none" THEN [err |-> "ENOENT", target |-> <<>>]
            ELSE [err |-> "EINVAL", target |-> <<>>]

----------------------------------------------------------------------------
(* Path resolution: _locOK, _validatePath, _fsPath *)

MaxHops == 40

\* longest caller segment sequence
MaxSegs == 2

allowedErrorTypes ==
  {"ENOENT", "ENOSYS", "EISDIR", "ENOTDIR", "ENOTEMPTY", "EPERM", "EMFILE",
   "ENFILE", "EBADF", "EINVAL", "EEXIST", "EUNKNOWN"}

\* the code of wrapVFSErr(err) for a host error carrying `code`
WrapCode(code) == IF code \in allowedErrorTypes THEN code ELSE "EUNKNOWN"

\* _locOK without its separator test
LocOKPrefixOnly(q) == StartsWith(q, Base)

LocOK(q) ==
  /\ StartsWith(q, Base)
  /\ \/ Len(q) = Len(Base)
     \/ q[Len(Base) + 1] = SEP

\* src[i] && src[i] !== '.' ? p + path.sep + src[i] : p
Child(q, seg) == IF seg # <<>> /\ seg # DOT THEN q \o <<SEP>> \o seg ELSE q

\* the work list after an absolute link target t, `pending` still to do
AbsNewSrc(t, pending) ==
  LET parsed == PathParse(t) IN Append(Split(parsed.dir), parsed.base) \o pending

\* the work list after a relative link target t
RelNewSrc(t, pending) == Split(t) \o pending

\* the loop index with which the next iteration starts after a link has been
\* followed: the body sets i = 0 and the for statement's ++i then runs
IndexAfterLink == 0 + 1

CallerNames == {a, b, sub, f, DOTDOT}

RECURSIVE SeqsUpTo(_, _)
SeqsUpTo(S, n) ==
  IF n = 0 THEN {<<>>}
  ELSE LET shorter == SeqsUpTo(S, n - 1) IN
       shorter \cup {Append(s, x) : s \in {t \in shorter : Len(t) = n - 1}, x \in S}

CallerSegs == SeqsUpTo(CallerNames, MaxSegs)

FullOps == {"stat", "exists", "realPath", "symlink"}
NoFollowOps == {"removeFile", "readSymlink"}
Ops == FullOps \cup NoFollowOps

\* the throughLast argument each operation gives _fsPath
ThroughLast(o) == o \notin NoFollowOps

NoArg == [target |-> <<>>, relative |-> TRUE]
LinkArgs(o) ==
  IF o = "symlink" THEN {[target |-> <<sub>>, relative |-> r] : r \in BOOLEAN}
  ELSE {NoArg}

Nothing == [kind |-> "none"]
Null == [kind |-> "null"]
PathOut(q) == [kind |-> "path", path |-> q]
\* a VFSError thrown to the caller, with its code and what raised it
Throw(code, msg) == [kind |-> "throw", code |-> code, msg |-> msg]
TooManySymlinks == Throw("EINVAL", "too many symlinks")
OutsideBase == Throw("EINVAL", "path outside base directory")
NoCall == [fn |-> "none"]
\* a value returned to the caller
Value(v) == [kind |-> "value", value |-> v]
\* the host's answer is handed on (its content is not modelled)
HostAnswer == [kind |-> "host"]
NoLinkMet == [at |-> <<>>]

PathInit ==
  /\ links \in Layouts
  /\ pc = "idle"
  /\ op = "none"
  /\ arg = <<>>
  /\ thruLast = TRUE
  /\ src = <<>>
  /\ i = 0
  /\ p = Base
  /\ strict = TRUE
  /\ depth = 0
  /\ out = Nothing
  /\ linkArg = NoArg
  /\ hostCall = NoCall
  /\ hostErr = ""
  /\ result = Nothing
  /\ lastLink = NoLinkMet

\* an operation is called; _fsPath answers for no segments, and otherwise
\* _validatePath starts
Call(o, segs, la) ==
  /\ pc = "idle"
  /\ op' = o
  /\ arg' = segs
  /\ linkArg' = la
  /\ thruLast' = ThroughLast(o)
  /\ src' = segs
  /\ i' = 0
  /\ p' = Base
  /\ strict' = TRUE
  /\ depth' = 0
  /\ hostCall' = NoCall
  /\ hostErr' = ""
  /\ result' = Nothing
  /\ lastLink' = NoLinkMet
  /\ IF Len(segs) = 0
     THEN out' = PathOut(Base) /\ pc' = "located"
     ELSE out' = Nothing /\ pc' = "resolve"
  /\ UNCHANGED links
  /\ UNCHANGED nonPathVars

InLoop == pc = "resolve" /\ i < Len(src)
Seg == src[i + 1]
Pending == SubSeq(src, i + 2, Len(src))
IsLast == i = Len(src) - 1
Met(child, r, fol) == [at |-> child, dir |-> p, target |-> r.target,
                       pending |-> Pending, followed |-> fol]

\* a '..' segment
LoopDotDot ==
  /\ InLoop /\ Seg = DOTDOT
  /\ p' = PathJoinParent(p)
  /\ IF strict /\ ~LocOK(p')
     THEN out' = Null /\ pc' = "returned" /\ i' = i
     ELSE i' = i + 1 /\ UNCHANGED <<out, pc>>
  /\ UNCHANGED <<links, op, arg, thruLast, src, strict, depth, linkArg, hostCall,
                 hostErr, result, lastLink>>
  /\ UNCHANGED nonPathVars

\* ++depth left out
NextDepthStuck(d) == d

\* ++depth
NextDepth(d) == d + 1

\* readlink succeeds for the 41st time
LoopTooManyCase(child, r) ==
  /\ NextDepth(depth) > MaxHops
  /\ r.err = ""
  /\ depth' = NextDepth(depth)
  /\ p' = child
  /\ out' = TooManySymlinks /\ pc' = "returned"
  /\ lastLink' = Met(child, r, FALSE)
  /\ UNCHANGED <<links, op, arg, thruLast, src, i, strict, linkArg, hostCall,
                 hostErr, result>>
  /\ UNCHANGED nonPathVars

\* the final segment is a link and the caller asked not to follow it
LoopBreakCase(child, r) ==
  /\ ~thruLast /\ IsLast
  /\ NextDepth(depth) <= MaxHops
  /\ r.err = ""
  /\ depth' = NextDepth(depth)
  /\ p' = child
  /\ pc' = "break"
  /\ lastLink' = Met(child, r, FALSE)
  /\ UNCHANGED <<links, op, arg, thruLast, src, i, strict, out, linkArg, hostCall,
                 hostErr, result>>
  /\ UNCHANGED nonPathVars

\* a link with an absolute target is followed
LoopAbsLinkCase(child, r) ==
  /\ r.err = ""
  /\ NextDepth(depth) <= MaxHops
  /\ ~(~thruLast /\ IsLast)
  /\ IsAbsolute(r.target)
  /\ depth' = NextDepth(depth)
  /\ src' = AbsNewSrc(r.target, Pending)
  /\ strict' = FALSE
  /\ p' = PathParse(r.target).root
  /\ i' = IndexAfterLink
  /\ lastLink' = Met(child, r, TRUE)
  /\ UNCHANGED <<links, pc, op, arg, thruLast, out, linkArg, hostCall,
                 hostErr, result>>
  /\ UNCHANGED nonPathVars

\* a link with a relative target is followed
LoopRelLinkCase(child, r) ==
  /\ r.err = ""
  /\ NextDepth(depth) <= MaxHops
  /\ ~(~thruLast /\ IsLast)
  /\ ~IsAbsolute(r.target)
  /\ depth' = NextDepth(depth)
  /\ src' = RelNewSrc(r.target, Pending)
  /\ strict' = TRUE
  /\ i' = IndexAfterLink
  /\ lastLink' = Met(child, r, TRUE)
  /\ UNCHANGED <<links, pc, op, arg, thruLast, p, out, linkArg, hostCall,
                 hostErr, result>>
  /\ UNCHANGED nonPathVars

\* readlink fails with EINVAL (not a link), or with ENOENT on the last segment
LoopPlainCase(child, r) ==
  /\ \/ r.err = "EINVAL"
     \/ r.err = "ENOENT" /\ IsLast
  /\ p' = child
  /\ i' = i + 1
  /\ UNCHANGED <<links, pc, op, arg, thruLast, src, strict, depth, out, linkArg, hostCall,
                 hostErr, result, lastLink>>
  /\ UNCHANGED nonPathVars

\* readlink fails otherwise: the wrapped error is thrown
LoopHostErrorCase(child, r) ==
  /\ r.err # "" /\ r.err # "EINVAL"
  /\ ~(r.err = "ENOENT" /\ IsLast)
  /\ p' = child
  /\ out' = Throw(WrapCode(r.err), "host") /\ pc' = "returned"
  /\ UNCHANGED <<links, op, arg, thruLast, src, i, strict, depth, linkArg, hostCall,
                 hostErr, result, lastLink>>
  /\ UNCHANGED nonPathVars

\* any other segment: the candidate child is read as a link
ReadChild == Child(p, Seg)
ReadResult == HostReadlink(links, ReadChild)
AtReadlink == InLoop /\ Seg # DOTDOT

LoopTooMany == AtReadlink /\ LET r == ReadResult IN LoopTooManyCase(ReadChild, r)
LoopBreak == AtReadlink /\ LET r == ReadResult IN LoopBreakCase(ReadChild, r)
LoopAbsLink == AtReadlink /\ LET r == ReadResult IN LoopAbsLinkCase(ReadChild, r)
LoopRelLink == AtReadlink /\ LET r == ReadResult IN LoopRelLinkCase(ReadChild, r)
LoopPlain == AtReadlink /\ LET r == ReadResult IN LoopPlainCase(ReadChild, r)
LoopHostError == AtReadlink /\ LET r == ReadResult IN LoopHostErrorCase(ReadChild, r)

\* the loop is left: return this._locOK(p) ? p : null
ValidateReturn ==
  /\ \/ pc = "resolve" /\ i >= Len(src)
     \/ pc = "break"
  /\ out' = IF LocOK(p) THEN PathOut(p) ELSE Null
  /\ pc' = "returned"
  /\ UNCHANGED <<links, op, arg, thruLast, src, i, p, strict, depth, linkArg, hostCall,
                 hostErr, result, lastLink>>
  /\ UNCHANGED nonPathVars

\* _fsPath after _validatePath: no path is an EINVAL failure
FsPathResult(r) == IF r.kind = "null" THEN OutsideBase ELSE r

FsPath ==
  /\ pc = "returned"
  /\ out' = FsPathResult(out)
  /\ pc' = "located"
  /\ UNCHANGED <<links, op, arg, thruLast, src, i, p, strict, depth, linkArg, hostCall,
                 hostErr, result, lastLink>>
  /\ UNCHANGED nonPathVars

\* the host function each operation calls with the resolved path
HostFn(o) ==
  IF o \in {"stat", "exists"} THEN "stat"
  ELSE IF o = "realPath" THEN "realpath"
  ELSE IF o = "removeFile" THEN "unlink"
  ELSE IF o = "readSymlink" THEN "readlink"
  ELSE "symlink"

\* _symlink's first argument to the host
SymlinkTarget(la) ==
  (IF la.relative THEN <<>> ELSE Base \o <<SEP>>) \o JoinSep(la.target)

\* fs.promises.stat(q): the host walks q, every link followed; "" on success
HostStat(L, q) == KWalk(L, <<>>, SelectSeq(Split(q), NonEmpty), MaxHops).err

\* failures of the host that the tree does not decide (an I/O error)
HostFaults == {"", "EIO"}

\* _exists' catch clause without its test of the code
ExistsCatchAny(e) == Value(FALSE)

\* _exists' catch clause, given the VFSError caught
ExistsCatch(e) == IF e.code = "ENOENT" THEN Value(FALSE) ELSE e

\* what the operation gives its caller: located is _fsPath's outcome, err the
\* code the host call failed with
OpResult(o, located, err) ==
  LET failure == IF located.kind = "throw" THEN located
                 ELSE Throw(WrapCode(err), "host")
      failed == located.kind = "throw" \/ err # ""
  IN  IF o = "exists"
      THEN IF failed THEN ExistsCatch(failure) ELSE Value(TRUE)
      ELSE IF failed THEN failure
      ELSE HostAnswer

\* the operation hands the path to the host, or fails with _fsPath's error;
\* the outcome of a host stat is computed from the tree, that of the other
\* host functions is left open
HostOp(fault) ==
  /\ pc = "located"
  /\ hostCall' = IF out.kind = "path"
                 THEN [fn |-> HostFn(op), path |-> out.path,
                       target |-> IF op = "symlink" THEN SymlinkTarget(linkArg) ELSE <<>>]
                 ELSE NoCall
  /\ hostErr' = IF out.kind = "path" /\ HostFn(op) = "stat"
                THEN IF fault # "" THEN fault ELSE HostStat(links, out.path)
                ELSE ""
  /\ result' = OpResult(op, out, hostErr')
  /\ pc' = "done"
  /\ UNCHANGED <<links, op, arg, thruLast, src, i, p, strict, depth, out, linkArg, lastLink>>
  /\ UNCHANGED nonPathVars

\* the operation has settled; the next one may be called
Settle ==
  /\ pc = "done"
  /\ pc' = "idle"
  /\ op' = "none" /\ arg' = <<>> /\ thruLast' = TRUE /\ src' = <<>> /\ i' = 0
  /\ p' = Base /\ strict' = TRUE /\ depth' = 0 /\ out' = Nothing
  /\ linkArg' = NoArg /\ hostCall' = NoCall /\ hostErr' = "" /\ result' = Nothing
  /\ lastLink' = NoLinkMet
  /\ UNCHANGED links
  /\ UNCHANGED nonPathVars

PathNext ==
  \/ pc = "idle" /\ \E o \in Ops, segs \in CallerSegs : \E la \in LinkArgs(o) : Call(o, segs, la)
  \/ LoopDotDot
  \/ LoopTooMany
  \/ LoopBreak
  \/ LoopAbsLink
  \/ LoopRelLink
  \/ LoopPlain
  \/ LoopHostError
  \/ ValidateReturn
  \/ FsPath
  \/ \E fault \in HostFaults : HostOp(fault)
  \/ Settle


----------------------------------------------------------------------------
(* Error normalization: allowedErrorTypes, wrapVFSErr, withVFSErr *)

\* most normalizing layers one error crosses
MaxLayers == 3

\* the characters of an error code
Chars(c) ==
  CASE c = "ENOENT" -> <<"E", "N", "O", "E", "N", "T">>
    [] c = "ENOSYS" -> <<"E", "N", "O", "S", "Y", "S">>
    [] c = "EISDIR" -> <<"E", "I", "S", "D", "I", "R">>
    [] c = "ENOTDIR" -> <<"E", "N", "O", "T", "D", "I", "R">>
    [] c = "ENOTEMPTY" -> <<"E", "N", "O", "T", "E", "M", "P", "T", "Y">>
    [] c = "EPERM" -> <<"E", "P", "E", "R", "M">>
    [] c = "EMFILE" -> <<"E", "M", "F", "I", "L", "E">>
    [] c = "ENFILE" -> <<"E", "N", "F", "I", "L", "E">>
    [] c = "EBADF" -> <<"E", "B", "A", "D", "F">>
    [] c = "EINVAL" -> <<"E", "I", "N", "V", "A", "L">>
    [] c = "EEXIST" -> <<"E", "E", "X", "I", "S", "T">>
    [] c = "EUNKNOWN" -> <<"E", "U", "N", "K", "N", "O", "W", "N">>
    [] c = "EACCES" -> <<"E", "A", "C", "C", "E", "S">>
    [] c = "EIO" -> <<"E", "I", "O">>
    [] c = "ELOOP" -> <<"E", "L", "O", "O", "P">>
    [] OTHER -> <<>>

NoCode == "none"
NoCause == [kind |-> "none"]
NoError == [kind |-> "none"]

\* an Error instance: its name, its code property (NoCode when it has
\* none), its message and its cause
Err(name, code, message, cause) ==
  [kind |-> "error", name |-> name, code |-> code, message |-> message, cause |-> cause]

\* a thrown value that is not an Error instance, with its string form
Thrown(text) == [kind |-> "value", text |-> text]

\* new VFSError(message, { code, cause }); without a code it is 'EUNKNOWN'
VFSError(message, code, cause) ==
  Err("VFSError", IF code = NoCode THEN "EUNKNOWN" ELSE code, message, cause)

\* wrapVFSErr with an already-canonical error wrapped again
WrapVFSErrRewrap(err) ==
  IF err.kind # "error" THEN VFSError(err.text, NoCode, NoCause)
  ELSE IF err.name = "AbortError" THEN err
  ELSE LET known == err.code \in allowedErrorTypes
           code == IF known THEN err.code ELSE "EUNKNOWN"
           prefix == Chars(code) \o <<":", " ">>
           message == IF known /\ StartsWith(err.message, prefix)
                      THEN SubSeq(err.message, Len(Chars(code)) + 2 + 1, Len(err.message))
                      ELSE err.message
       IN  VFSError(message, code, err)

\* wrapVFSErr with the prefix cut one character short
WrapVFSErrShortSlice(err) ==
  IF err.kind # "error" THEN VFSError(err.text, NoCode, NoCause)
  ELSE IF err.name = "AbortError" THEN err
  ELSE IF err.name = "VFSError" THEN err
  ELSE LET known == err.code \in allowedErrorTypes
           code == IF known THEN err.code ELSE "EUNKNOWN"
           prefix == Chars(code) \o <<":", " ">>
           message == IF known /\ StartsWith(err.message, prefix)
                      THEN SubSeq(err.message, Len(Chars(code)) + 1 + 1, Len(err.message))
                      ELSE err.message
       IN  VFSError(message, code, err)

\* wrapVFSErr(err); message.slice(n) keeps the characters from the (n+1)-th
WrapVFSErr(err) ==
  IF err.kind # "error" THEN VFSError(err.text, NoCode, NoCause)
  ELSE IF err.name = "AbortError" THEN err
  ELSE IF err.name = "VFSError" THEN err
  ELSE LET known == err.code \in allowedErrorTypes
           code == IF known THEN err.code ELSE "EUNKNOWN"
           prefix == Chars(code) \o <<":", " ">>
           message == IF known /\ StartsWith(err.message, prefix)
                      THEN SubSeq(err.message, Len(Chars(code)) + 2 + 1, Len(err.message))
                      ELSE err.message
       IN  VFSError(message, code, err)

\* the codes host errors carry here: canonical ones and others
HostCodes == {"ENOENT", "EINVAL", "ENOTDIR", "EEXIST", "EUNKNOWN", "EACCES", "EIO", NoCode}

NoSuchFile == <<"n", "o", " ", "s", "u", "c", "h", " ", "f", "i", "l", "e", " ", "o", "r", " ", "d", "i", "r", "e", "c", "t", "o", "r", "y", ",", " ", "s", "t", "a", "t", " ", "'", "/", "r", "o", "o", "t", "/", "x", "'">>
Denied == <<"d", "e", "n", "i", "e", "d">>

\* the messages a host error with code c may carry: prefixed with its code
\* as the host does, bare, prefixed without the blank, prefixed with another
\* code, and the prefix alone
MessagesOf(c) ==
  {Chars(c) \o <<":", " ">> \o NoSuchFile, Chars(c) \o <<":", " ">> \o Denied,
   Denied, <<>>, Chars(c) \o <<":">> \o Denied,
   Chars("EPERM") \o <<":", " ">> \o Denied, Chars(c) \o <<":", " ">>,
   Chars(c) \o <<":", " ">> \o Chars(c) \o <<":", " ">> \o Denied}

HostErrors ==
  {Err(n, c, m, NoCause) : n \in {"Error", "TypeError"}, c \in HostCodes,
                           m \in UNION {MessagesOf(d) : d \in HostCodes}}

AbortError == Err("AbortError", "ABORT_ERR", <<"T", "h", "e", " ", "o", "p", "e", "r", "a", "t", "i", "o", "n", " ", "w", "a", "s", " ", "a", "b", "o", "r", "t", "e", "d">>, NoCause)

\* errors that are canonical already: raised by this module, or wrapped before
CanonicalErrors ==
  {VFSError(<<"t", "o", "o", " ", "m", "a", "n", "y", " ", "s", "y", "m", "l", "i", "n", "k", "s">>, "EINVAL", NoCause),
   VFSError(Chars("ENOENT") \o <<":", " ">> \o Denied, "ENOENT", NoCause),
   VFSError(Denied, "ENOENT", Err("Error", "ENOENT", Chars("ENOENT") \o <<":", " ">> \o Denied, NoCause))}

ThrownValues ==
  HostErrors \cup CanonicalErrors \cup {AbortError, Thrown(Denied), Thrown(<<>>)}

ErrIdle ==
  /\ errOrigin = NoError
  /\ errNow = NoError
  /\ errFirst = NoError
  /\ errLayers = 0

\* a host call (or a callee) raises e
Raise(e) ==
  /\ errOrigin = NoError
  /\ errOrigin' = e
  /\ errNow' = e
  /\ errFirst' = NoError
  /\ errLayers' = 0
  /\ UNCHANGED nonErrVars

\* the error crosses a normalizing layer: withVFSErr's catch, _validatePath's
\* catch, a stream's error listener
Normalize ==
  /\ errOrigin # NoError
  /\ errLayers < MaxLayers
  /\ errNow' = WrapVFSErr(errNow)
  /\ errFirst' = IF errLayers = 0 THEN errNow' ELSE errFirst
  /\ errLayers' = errLayers + 1
  /\ UNCHANGED errOrigin
  /\ UNCHANGED nonErrVars

\* the error reaches the caller
Deliver ==
  /\ errOrigin # NoError
  /\ errLayers >= 1
  /\ errOrigin' = NoError /\ errNow' = NoError /\ errFirst' = NoError /\ errLayers' = 0
  /\ UNCHANGED nonErrVars

ErrNext ==
  \/ \E e \in ThrownValues : Raise(e)
  \/ Normalize
  \/ Deliver

----------------------------------------------------------------------------
(* The watch multiplexer: _watch, its returned unsubscribe, _onWatchEvent *)

\* most watch calls made on one instance
MaxRegs == 2

\* most invocations of one entry's unsubscribe function
MaxUnsubCalls == 2

RegIds == 1..MaxRegs
Undefined == 0

\* what micromatch's matcher(glob) answers, per glob: the paths (relative to
\* the base) it matches in the absolute-style and in the relative-style form
GlobSub == [abs |-> {JoinSep(<<sub, f>>)}, rel |-> {}]
GlobF   == [abs |-> {}, rel |-> {f}]
GlobAll == [abs |-> {f, JoinSep(<<sub, f>>)}, rel |-> {f, JoinSep(<<sub, f>>)}]
Globs == {GlobSub, GlobF, GlobAll}

\* the real paths the native notifier reports changes for
EventPaths == {OfStack(<<root, sub, f>>), OfStack(<<root, f>>)}

\* path.relative(this._base, q) for q below the base
PathRelative(q) == SubSeq(q, Len(Base) + 2, Len(q))

\* _relPath(q, absolute): the virtual path, absolute-style or relative-style
RelPath(q, absolute) == [absolute |-> absolute, parts |-> Split(PathRelative(q))]

\* entry.isMatch(virtual path)
IsMatch(glob, vp) ==
  JoinSep(vp.parts) \in (IF vp.absolute THEN glob.abs ELSE glob.rel)

\* the receiver with which the native notifier invokes the handler given to
\* subscribeWatcher: this._onWatchEvent is handed over as a bare method
\* reference, so it is not invoked on the NodeVFS instance
HandlerReceiver == "undefined"

NoNotification == [kind |-> "none"]

WatchIdle ==
  /\ watchCallbacks = {}
  /\ watcher = Undefined
  /\ alive = {}
  /\ created = 0
  /\ regState = [r \in RegIds |-> "free"]
  /\ regGlob = [r \in RegIds |-> GlobAll]
  /\ unsubCalls = [r \in RegIds |-> 0]
  /\ closing = {}
  /\ rejected = {}
  /\ notified = NoNotification

PathIdle ==
  /\ links = [s \in LinkSlots |-> NoLink]
  /\ pc = "idle" /\ op = "none" /\ arg = <<>> /\ thruLast = TRUE /\ src = <<>>
  /\ i = 0 /\ p = Base /\ strict = TRUE /\ depth = 0 /\ out = Nothing
  /\ linkArg = NoArg /\ hostCall = NoCall /\ hostErr = "" /\ result = Nothing
  /\ lastLink = NoLinkMet

\* _watch up to its await: the entry is added, and a subscription is
\* requested when this._watcher is unset
WatchCall(r, g) ==
  /\ regState[r] = "free"
  /\ \A q \in RegIds : q < r => regState[q] # "free"
  /\ regGlob' = [regGlob EXCEPT ![r] = g]
  /\ watchCallbacks' = watchCallbacks \cup {r}
  /\ regState' = [regState EXCEPT ![r] =
                    IF watcher = Undefined THEN "subscribing" ELSE "registered"]
  /\ UNCHANGED <<watcher, alive, created, unsubCalls, closing, rejected, notified>>
  /\ UNCHANGED nonWatchVars

\* subscribeWatcher resolves: this._watcher is assigned the new subscription
SubscribeDone(r) ==
  /\ regState[r] = "subscribing"
  /\ created' = created + 1
  /\ alive' = alive \cup {created + 1}
  /\ watcher' = created + 1
  /\ regState' = [regState EXCEPT ![r] = "registered"]
  /\ UNCHANGED <<watchCallbacks, regGlob, unsubCalls, closing, rejected, notified>>
  /\ UNCHANGED nonWatchVars

\* subscribeWatcher rejects: _watch raises the wrapped error
SubscribeFail(r) ==
  /\ regState[r] = "subscribing"
  /\ regState' = [regState EXCEPT ![r] = "failed"]
  /\ UNCHANGED <<watchCallbacks, watcher, alive, created, regGlob, unsubCalls,
                 closing, rejected, notified>>
  /\ UNCHANGED nonWatchVars

\* the function _watch returned is invoked
Unsubscribe(r) ==
  /\ regState[r] = "registered"
  /\ unsubCalls[r] < MaxUnsubCalls
  /\ unsubCalls' = [unsubCalls EXCEPT ![r] = @ + 1]
  /\ watchCallbacks' = watchCallbacks \ {r}
  /\ IF watchCallbacks' = {}
     THEN /\ watcher' = Undefined
          /\ IF watcher = Undefined
             THEN \* watcher!.unsubscribe() on undefined
                  /\ rejected' = rejected \cup {<<r, "TypeError">>}
                  /\ UNCHANGED closing
             ELSE /\ closing' = closing \cup {watcher}
                  /\ UNCHANGED rejected
     ELSE UNCHANGED <<watcher, closing, rejected>>
  /\ UNCHANGED <<alive, created, regState, regGlob, notified>>
  /\ UNCHANGED nonWatchVars

\* the host finishes unsubscribe(): that native subscription is gone
UnsubscribeDone(h) ==
  /\ h \in closing
  /\ closing' = closing \ {h}
  /\ alive' = alive \ {h}
  /\ UNCHANGED <<watchCallbacks, watcher, created, regState, regGlob, unsubCalls,
                 rejected, notified>>
  /\ UNCHANGED nonWatchVars

\* the form with which _onWatchEvent notifies an entry of an event at q
FireFor(glob, q) ==
  IF IsMatch(glob, RelPath(q, TRUE)) THEN <<RelPath(q, TRUE)>>
  ELSE IF IsMatch(glob, RelPath(q, FALSE)) THEN <<RelPath(q, FALSE)>>
  ELSE <<>>

\* _onWatchEvent(err, events) invoked with `receiver` as this: reading
\* this._watchCallbacks or this._relPath off anything but the instance
\* raises, and so does iterating over an events argument that was not given
OnWatchEvent(receiver, err, given, events) ==
  LET failed == err # NoError IN
  IF receiver # "instance"
  THEN [kind |-> "handled", err |-> err, events |-> events, given |-> given,
        failed |-> failed,
        threw |-> failed \/ ~given \/ Len(events) > 0,
        errs |-> [r \in RegIds |-> 0],
        delivered |-> NoError,
        fired |-> [r \in RegIds |-> <<>>],
        entries |-> watchCallbacks]
  ELSE [kind |-> "handled", err |-> err, events |-> events, given |-> given,
        failed |-> failed,
        threw |-> ~given,
        errs |-> [r \in RegIds |-> IF failed /\ r \in watchCallbacks THEN 1 ELSE 0],
        delivered |-> IF failed THEN VFSError(err.message, NoCode, err) ELSE NoError,
        fired |-> [r \in RegIds |->
                     IF r \in watchCallbacks /\ given /\ Len(events) > 0
                     THEN FireFor(regGlob[r], events[1]) ELSE <<>>],
        entries |-> watchCallbacks]

\* a native subscription delivers a batch of events, or an error
NativeNotify(h, n) ==
  /\ h \in alive
  /\ notified' = OnWatchEvent(HandlerReceiver, n.err, n.given, n.events)
  /\ UNCHANGED <<watchCallbacks, watcher, alive, created, regState, regGlob,
                 unsubCalls, closing, rejected>>
  /\ UNCHANGED nonWatchVars

\* the errors the native notifier reports
WatchErrors ==
  {Err("Error", "ENOENT", Chars("ENOENT") \o <<":", " ">> \o Denied, NoCause),
   Err("Error", NoCode, Denied, NoCause),
   AbortError}

\* what the notifier calls the handler with: null and a batch of events, or
\* an error, with or without an events argument
NotifyInputs ==
  {[err |-> NoError, given |-> TRUE, events |-> <<q>>] : q \in EventPaths}
  \cup {[err |-> NoError, given |-> TRUE, events |-> <<>>]}
  \cup {[err |-> e, given |-> g, events |-> <<>>] : e \in WatchErrors, g \in BOOLEAN}

WatchNext ==
  \/ \E r \in RegIds, g \in Globs : WatchCall(r, g)
  \/ \E r \in RegIds : SubscribeDone(r)
  \/ \E r \in RegIds : SubscribeFail(r)
  \/ \E r \in RegIds : Unsubscribe(r)
  \/ \E h \in closing : UnsubscribeDone(h)
  \/ \E h \in alive, n \in NotifyInputs : NativeNotify(h, n)

----------------------------------------------------------------------------
(* Streams: wrapNodeReadable / wrapNodeWritable, nodeToVFSReadable /        *)
(* nodeToVFSWritable, _readFileStream, _writeFileStream, _appendFileStream  *)

\* most chunks written to, or produced by, one stream
MaxChunks == 2

StreamOps == {"read", "write", "append"}
IsWrite(o) == o \in {"write", "append"}

Live == [state |-> "open", err |-> NoError]
Ended(st) == [state |-> st, err |-> NoError]
Failed(st, e) == [state |-> st, err |-> e]
NoStream == [state |-> "none", err |-> NoError]

\* what Writable.prototype.pipe destroys the stream with
CannotPipe == Err("Error", "ERR_STREAM_CANNOT_PIPE", <<"C", "a", "n", "n", "o", "t", " ", "p", "i", "p", "e", ",", " ", "n", "o", "t", " ", "r", "e", "a", "d", "a", "b", "l", "e">>, NoCause)

\* what cancel() / abort() of a locked web stream rejects with
LockedRejection == Err("TypeError", "ERR_INVALID_STATE", <<"I", "n", "v", "a", "l", "i", "d", " ", "s", "t", "a", "t", "e">>, NoCause)

\* the failures of gen(): what _fsPath raises
GenFailures ==
  {VFSError(<<"p", "a", "t", "h", " ", "o", "u", "t", "s", "i", "d", "e", " ", "b", "a", "s", "e", " ", "d", "i", "r", "e", "c", "t", "o", "r", "y">>, "EINVAL", NoCause),
   VFSError(Denied, "ENOTDIR", Err("Error", "ENOTDIR", Chars("ENOTDIR") \o <<":", " ">> \o Denied, NoCause))}

\* the native errors the host file stream emits (at open, or later)
StreamErrors ==
  {Err("Error", "ENOENT", Chars("ENOENT") \o <<":", " ">> \o Denied, NoCause),
   Err("Error", "EIO", Chars("EIO") \o <<":", " ">> \o Denied, NoCause)}

StreamIdle ==
  /\ stOp = "none"
  /\ stSignal = "none"
  /\ stGen = "none"
  /\ stOut = NoStream
  /\ stWeb = NoStream
  /\ stLocked = FALSE
  /\ stHost = NoStream
  /\ stPipe = "none"
  /\ stUncaught = {}
  /\ stWritten = <<>>
  /\ stBuffer = <<>>
  /\ stFile = <<>>
  /\ stRead = <<>>
  /\ stFailed = NoError
  /\ stCancelled = FALSE

\* the web stream after out emitted 'error' with e: the listener prepended by
\* nodeToVFSReadable / nodeToVFSWritable runs first and calls cancel / abort
\* with wrapVFSErr(e), which a locked stream rejects, which closes an
\* unlocked readable stream and errors an unlocked writable one; then the
\* adapter's own listener errors the stream with e if it is still open
WebAfterError(o, web, locked, e) ==
  IF web.state # "open" THEN web
  ELSE IF locked THEN Failed("errored", e)
  ELSE IF IsWrite(o) THEN Failed("errored", WrapVFSErr(e))
  ELSE Ended("closed")

\* the rejection of that cancel / abort call, which is discarded with void
RejectionAfterError(locked) == IF locked THEN {LockedRejection} ELSE {}

\* out.destroy(e): nothing on a stream that has ended or is destroyed
DestroyOut(e) ==
  IF stOut.state = "open"
  THEN /\ stOut' = Failed("destroyed", e)
       /\ stWeb' = WebAfterError(stOp, stWeb, stLocked, e)
       /\ stUncaught' = stUncaught \cup RejectionAfterError(stLocked)
  ELSE UNCHANGED <<stOut, stWeb, stUncaught>>

\* _readFileStream / _writeFileStream / _appendFileStream is called: out is
\* created (and destroyed at once when the signal is aborted already),
\* gen() starts, and the web stream made of out is returned; made of a
\* destroyed stream it is a closed one
StreamCall(o, sig) ==
  /\ stOp = "none"
  /\ stOp' = o
  /\ stSignal' = sig
  /\ stGen' = "pending"
  /\ stOut' = IF sig = "aborted" THEN Failed("destroyed", AbortError) ELSE Live
  /\ stWeb' = IF sig = "aborted" THEN Ended("closed") ELSE Live
  /\ stCancelled' = (sig = "aborted")
  /\ UNCHANGED <<stLocked, stHost, stPipe, stUncaught, stWritten, stBuffer, stFile,
                 stRead, stFailed>>
  /\ UNCHANGED nonStreamVars

\* the consumer takes the reader / writer of the stream it was given
Lock ==
  /\ stOp # "none"
  /\ ~stLocked
  /\ stLocked' = TRUE
  /\ UNCHANGED <<stOp, stSignal, stGen, stOut, stWeb, stHost, stPipe, stUncaught,
                 stWritten, stBuffer, stFile, stRead, stFailed, stCancelled>>
  /\ UNCHANGED nonStreamVars

\* gen() rejects (path resolution failed): .catch(err => out.destroy(err))
GenReject(e) ==
  /\ stGen = "pending"
  /\ stGen' = "rejected"
  /\ DestroyOut(e)
  /\ stFailed' = IF stWeb.state = "open" /\ stFailed = NoError THEN e ELSE stFailed
  /\ UNCHANGED <<stOp, stSignal, stLocked, stHost, stPipe, stWritten, stBuffer,
                 stFile, stRead, stCancelled>>
  /\ UNCHANGED nonStreamVars

\* gen() resolves with the host stream s: .then(s => s.pipe(out)). A
\* readable s is piped into out; a writable s has no working pipe: the call
\* destroys s with ERR_STREAM_CANNOT_PIPE, emitted on s, where nobody listens
GenResolve ==
  /\ stGen = "pending"
  /\ stGen' = "resolved"
  /\ IF IsWrite(stOp)
     THEN /\ stHost' = Failed("destroyed", CannotPipe)
          /\ stPipe' = "none"
          /\ stUncaught' = stUncaught \cup {CannotPipe}
     ELSE /\ stHost' = Ended("opening")
          /\ stPipe' = IF stOut.state = "open" THEN "hostToOut" ELSE "none"
          /\ UNCHANGED stUncaught
  /\ UNCHANGED <<stOp, stSignal, stOut, stWeb, stLocked, stWritten, stBuffer,
                 stFile, stRead, stFailed, stCancelled>>
  /\ UNCHANGED nonStreamVars

\* the host opens the file of s
HostOpen ==
  /\ stHost.state = "opening"
  /\ stHost' = Live
  /\ UNCHANGED <<stOp, stSignal, stGen, stOut, stWeb, stLocked, stPipe, stUncaught,
                 stWritten, stBuffer, stFile, stRead, stFailed, stCancelled>>
  /\ UNCHANGED nonStreamVars

\* s emits a native error (the open fails, or a later read does): pipe puts
\* no 'error' listener on its source and does not end out for it
HostFail(e) ==
  /\ stHost.state \in {"opening", "open"}
  /\ stHost' = Failed("failed", e)
  /\ stUncaught' = stUncaught \cup {e}
  /\ stFailed' = IF stWeb.state = "open" /\ stFailed = NoError THEN e ELSE stFailed
  /\ UNCHANGED <<stOp, stSignal, stGen, stOut, stWeb, stLocked, stPipe, stWritten,
                 stBuffer, stFile, stRead, stCancelled>>
  /\ UNCHANGED nonStreamVars

\* s delivers a chunk, which the pipe writes into out
HostData ==
  /\ stHost.state = "open"
  /\ stPipe = "hostToOut" /\ stOut.state = "open"
  /\ Len(stBuffer) + Len(stRead) < MaxChunks
  /\ stBuffer' = Append(stBuffer, Len(stBuffer) + Len(stRead) + 1)
  /\ UNCHANGED <<stOp, stSignal, stGen, stOut, stWeb, stLocked, stHost, stPipe,
                 stUncaught, stWritten, stFile, stRead, stFailed, stCancelled>>
  /\ UNCHANGED nonStreamVars

\* s ends: the pipe ends out, and the web stream closes
HostEnd ==
  /\ stHost.state = "open"
  /\ stHost' = Ended("ended")
  /\ IF stPipe = "hostToOut" /\ stOut.state = "open"
     THEN /\ stOut' = Ended("ended")
          /\ stWeb' = IF stWeb.state = "open" THEN Ended("closed") ELSE stWeb
     ELSE UNCHANGED <<stOut, stWeb>>
  /\ UNCHANGED <<stOp, stSignal, stGen, stLocked, stPipe, stUncaught, stWritten,
                 stBuffer, stFile, stRead, stFailed, stCancelled>>
  /\ UNCHANGED nonStreamVars

\* the consumer reads a chunk off the web stream
ConsumerRead ==
  /\ stOp = "read" /\ stLocked
  /\ stWeb.state # "errored"
  /\ stBuffer # <<>>
  /\ stRead' = Append(stRead, Head(stBuffer))
  /\ stBuffer' = Tail(stBuffer)
  /\ UNCHANGED <<stOp, stSignal, stGen, stOut, stWeb, stLocked, stHost, stPipe,
                 stUncaught, stWritten, stFile, stFailed, stCancelled>>
  /\ UNCHANGED nonStreamVars

\* the consumer writes a chunk to the web stream: it goes into out, whose
\* readable side is where it stays unless something reads out
ConsumerWrite ==
  /\ IsWrite(stOp) /\ stLocked
  /\ stWeb.state = "open"
  /\ Len(stWritten) < MaxChunks
  /\ stWritten' = Append(stWritten, Len(stWritten) + 1)
  /\ stBuffer' = Append(stBuffer, Len(stWritten) + 1)
  /\ UNCHANGED <<stOp, stSignal, stGen, stOut, stWeb, stLocked, stHost, stPipe,
                 stUncaught, stFile, stRead, stFailed, stCancelled>>
  /\ UNCHANGED nonStreamVars

\* the signal is triggered: addAbortSignal's listener destroys out
Abort ==
  /\ stSignal = "armed"
  /\ stSignal' = "aborted"
  /\ DestroyOut(AbortError)
  /\ stCancelled' = (stCancelled \/ stWeb.state = "open")
  /\ UNCHANGED <<stOp, stGen, stLocked, stHost, stPipe, stWritten, stBuffer,
                 stFile, stRead, stFailed>>
  /\ UNCHANGED nonStreamVars

StreamNext ==
  \/ stOp = "none" /\ \E o \in StreamOps, sig \in {"none", "armed", "aborted"} : StreamCall(o, sig)
  \/ Lock
  \/ \E e \in GenFailures : GenReject(e)
  \/ GenResolve
  \/ HostOpen
  \/ \E e \in StreamErrors : HostFail(e)
  \/ HostData
  \/ HostEnd
  \/ ConsumerRead
  \/ ConsumerWrite
  \/ Abort

----------------------------------------------------------------------------
(* Specifications *)

PathSpecInit == PathInit /\ WatchIdle /\ ErrIdle /\ StreamIdle

WatchSpecInit == PathIdle /\ WatchIdle /\ ErrIdle /\ StreamIdle

ErrSpecInit == PathIdle /\ WatchIdle /\ ErrIdle /\ StreamIdle

StreamSpecInit == PathIdle /\ WatchIdle /\ ErrIdle /\ StreamIdle

\* operations on paths, over every link layout
SpecPath == PathSpecInit /\ [][PathNext]_vars

\* watch registrations, removals and native notifications
SpecWatch == WatchSpecInit /\ [][WatchNext]_vars

\* errors raised and normalized, over every thrown value
SpecErr == ErrSpecInit /\ [][ErrNext]_vars

\* one streaming operation, its consumer, its signal and the host stream
SpecStream == StreamSpecInit /\ [][StreamNext]_vars

----------------------------------------------------------------------------
(* Properties of path resolution *)

\* q equals BaseDirectory or has BaseDirectory followed by a separator as a prefix
InJail(q) == q = Base \/ StartsWith(q, Base \o <<SEP>>)

\* the components of an absolute path, "." / ".." and empty ones resolved
StackOf(q) == NormStack(Split(q), <<>>)

\* the location reached from directory `dir` over `comps` when no link is on the way
LexWalk(dir, comps) == OfStack(NormStack(comps, StackOf(dir)))

\* no location on the walk from `dir` over `comps` is a link
NoLinkAlong(L, dir, comps) ==
  \A k \in 1..Len(comps) : NodeAt(L, NormStack(SubSeq(comps, 1, k), StackOf(dir))) # "link"

\* some '..' of `comps`, walked from `dir`, moves outside BaseDirectory
Climbs(dir, comps) ==
  \E k \in 1..Len(comps) :
    comps[k] = DOTDOT /\ ~InJail(LexWalk(dir, SubSeq(comps, 1, k)))

\* _validatePath left its loop (by exhausting the work list or by break)
Completed ==
  \/ i >= Len(src)
  \/ lastLink # NoLinkMet /\ ~lastLink.followed /\ depth <= MaxHops

Settled == pc \in {"located", "done"}

\* exactly one link was met in this call, and it was followed
OneLinkFollowed == depth = 1 /\ lastLink # NoLinkMet /\ lastLink.followed

\* the host's walk of the directory part of q meets no link
DirectoryIsReal(L, q) ==
  LET dir == SubSeq(StackOf(q), 1, Len(StackOf(q)) - 1)
      d == KWalk(L, <<>>, dir, MaxHops)
  IN d.err = "" /\ d.at = dir

\* C1: every path _validatePath / _fsPath returns, and every path handed to
\* the host, equals BaseDirectory or has BaseDirectory + separator as a
\* prefix (it holds no '..' component, and no link in its directory part); a
\* resolution that ran to its end at a location outside BaseDirectory fails
\* with EINVAL.
JailSafety ==
  /\ Settled => out.kind \in {"path", "throw"}
  /\ out.kind = "path" => InJail(out.path) /\ OfStack(StackOf(out.path)) = out.path
  /\ hostCall # NoCall => InJail(hostCall.path) /\ DirectoryIsReal(links, hostCall.path)
  /\ (Settled /\ Len(arg) > 0 /\ Completed /\ ~InJail(p)) => out = OutsideBase

\* C1 witness: a resolution that followed a link returned a path below the base
JailSafetyWitness ==
  /\ pc = "done" /\ hostCall # NoCall
  /\ lastLink # NoLinkMet /\ lastLink.followed
  /\ hostCall.path # Base

\* C1 witness (failure side): a resolution ended outside the base and failed
JailEscapeRefused ==
  /\ pc = "done" /\ out = OutsideBase /\ Completed /\ ~InJail(p)
  /\ lastLink # NoLinkMet /\ lastLink.followed

\* C2: when the one link a resolution follows has a relative target, the
\* resolved path is the walk of every target component, then the pending
\* segments, from the directory containing the link; /root/a -> sub resolves
\* [a, f] to /root/sub/f.
RelativeLinkFromItsDirectory ==
  /\ ( /\ pc = "returned" /\ out.kind = "path" /\ thruLast
       /\ OneLinkFollowed /\ ~IsAbsolute(lastLink.target)
       /\ NoLinkAlong(links, lastLink.dir, Split(lastLink.target) \o lastLink.pending) )
     => out.path = LexWalk(lastLink.dir, Split(lastLink.target) \o lastLink.pending)
  /\ ( /\ pc = "done" /\ op = "stat" /\ arg = <<a, f>>
       /\ links[SlotA] = sub )
     => /\ hostCall # NoCall
        /\ hostCall.path = OfStack(<<root, sub, f>>)

\* C3: a '..' that moves the running path outside the base while strict is
\* set fails the resolution with EINVAL, also when the '..' is a component
\* (the first one included) of a relative link target.
StrictEscapeFails ==
  /\ ( /\ Settled /\ OneLinkFollowed /\ ~IsAbsolute(lastLink.target)
       /\ Climbs(lastLink.dir, Split(lastLink.target)) )
     => out = OutsideBase
  /\ ( /\ Settled /\ depth = 0 /\ Climbs(Base, arg) )
     => out = OutsideBase

\* C4: a resolution that would follow more than 40 links (the host's own
\* walk of the same path runs out of its 40 links) fails with EINVAL and
\* returns no path; a resolution fails for the hop limit only after more
\* than 40 links.
HopLimit ==
  /\ ( /\ Settled /\ thruLast
       /\ KWalk(links, StackOf(Base), arg, MaxHops).err = "ELOOP" )
     => out.kind = "throw" /\ out.code = "EINVAL"
  /\ out = TooManySymlinks => depth > MaxHops

\* C5: when the one link a resolution follows has an absolute target, the
\* walk restarts at the filesystem root with strict off, and the resolution
\* returns the location reached whenever that location is inside the base,
\* failing with EINVAL only when it is outside.
AbsoluteLinkValidatedAtEnd ==
  ( /\ Settled /\ thruLast
    /\ OneLinkFollowed /\ IsAbsolute(lastLink.target)
    /\ NoLinkAlong(links, Root, Split(lastLink.target) \o lastLink.pending)
    /\ ~(out.kind = "throw" /\ out.msg = "host") )
  => LET final == LexWalk(Root, Split(lastLink.target) \o lastLink.pending) IN
     /\ ~strict
     /\ InJail(final) => out = PathOut(final)
     /\ ~InJail(final) => out = OutsideBase

\* the host's walk of the caller's segments but the last, from the base
ParentOfArg == KWalk(links, StackOf(Base), SubSeq(arg, 1, Len(arg) - 1), MaxHops)

\* the final caller segment names a link in a directory inside the base
FinalSegmentIsLink ==
  /\ Len(arg) > 0
  /\ arg[Len(arg)] # DOTDOT
  /\ ~Climbs(Base, arg)
  /\ ParentOfArg.err = ""
  /\ InJail(OfStack(ParentOfArg.at))
  /\ NodeAt(links, Append(ParentOfArg.at, arg[Len(arg)])) = "link"

FinalLinkPath == OfStack(Append(ParentOfArg.at, arg[Len(arg)]))

\* C9: removeFile and readSymlink hand the host the final link's own path
\* (intermediate links followed); stat and realPath hand it the location the
\* link ultimately leads to.
FinalLinkHandling ==
  /\ (pc = "done" /\ op \in NoFollowOps /\ FinalSegmentIsLink)
     => hostCall # NoCall /\ hostCall.path = FinalLinkPath
  /\ ( /\ pc = "done" /\ op \in {"stat", "realPath"} /\ FinalSegmentIsLink
       /\ KWalk(links, StackOf(Base), arg, MaxHops).err = ""
       /\ InJail(OfStack(KWalk(links, StackOf(Base), arg, MaxHops).at)) )
     => /\ hostCall # NoCall
        /\ hostCall.path = OfStack(KWalk(links, StackOf(Base), arg, MaxHops).at)

\* C10: symlink hands the host, as the link path, the own path of a final
\* segment that is an existing link.
SymlinkKeepsFinalLink ==
  (pc = "done" /\ op = "symlink" /\ FinalSegmentIsLink)
  => hostCall # NoCall /\ hostCall.path = FinalLinkPath

\* the work a running _validatePath has left: the links it may still follow,
\* then the work-list segments still to do
HopsLeft == (MaxHops + 1) - depth
SegsLeft == Len(src) - i

\* C16: _validatePath finishes (a path, no path or a failure) after finitely
\* many steps, for every segment sequence and every link layout, cyclic
\* ones included: each step of a running resolution either ends it, or does
\* one work-list segment (work list and hop count unchanged), or follows one
\* more link, of at most 40; so the pair (links left, segments left), both
\* natural numbers, falls in the lexicographic order with every step.
ResolutionTerminates ==
  /\ [](pc = "resolve" => depth <= MaxHops /\ i <= Len(src))
  /\ [](depth <= MaxHops + 1)
  /\ [][pc = "break" => pc' = "returned"]_vars
  /\ [][pc = "resolve" =>
         \/ pc' \in {"returned", "break"}
         \/ /\ pc' = "resolve"
            /\ \/ i' = i + 1 /\ src' = src /\ depth' = depth
               \/ depth' = depth + 1 /\ depth' <= MaxHops /\ i' <= Len(src')
            /\ \/ HopsLeft' < HopsLeft
               \/ HopsLeft' = HopsLeft /\ SegsLeft' < SegsLeft]_vars

\* C16 witness: over a link that leads to itself the resolution has ended,
\* with the hop limit's failure
CycleEndsWitness ==
  /\ pc = "returned" /\ out = TooManySymlinks
  /\ links[SlotA] = SlotA /\ depth = MaxHops + 1

\* the failure an exists call met: _fsPath's, else the host stat's
ExistsFailure ==
  IF out.kind = "throw" THEN out
  ELSE IF hostErr # "" THEN Throw(WrapCode(hostErr), "host")
  ELSE Nothing

\* C11: exists returns true when resolution and the host stat both succeed,
\* false only when the failure met has code ENOENT, and raises every other
\* failure as it is; a jail escape, an exceeded hop limit (EINVAL) and a
\* not-a-directory failure are raised, never answered with false.
ExistsContract ==
  (pc = "done" /\ op = "exists") =>
    /\ result.kind \in {"value", "throw"}
    /\ result = Value(TRUE) <=> (out.kind = "path" /\ hostErr = "")
    /\ result = Value(TRUE) => NodeAt(links, StackOf(hostCall.path)) \in {"dir", "file"}
    /\ result = Value(FALSE) <=> (ExistsFailure # Nothing /\ ExistsFailure.code = "ENOENT")
    /\ result.kind = "throw" => result = ExistsFailure
    /\ out \in {OutsideBase, TooManySymlinks} => result = out
    /\ (out.kind = "throw" /\ out.code = "ENOTDIR") => result = out
    /\ (hostErr # "" /\ hostErr # "ENOENT") => result = Throw(WrapCode(hostErr), "host")

\* C11 witness: the final segment does not exist; the host stat fails
\* ENOENT and exists answers false
ExistsFalseWitness ==
  /\ pc = "done" /\ op = "exists"
  /\ out.kind = "path" /\ hostErr = "ENOENT" /\ result = Value(FALSE)

\* C11, the raising side: a jail escape met by exists is raised as EINVAL
ExistsRaisesEscape ==
  /\ pc = "done" /\ op = "exists"
  /\ out = OutsideBase /\ result = OutsideBase

\* C11, the raising side: a not-a-directory failure met by exists is raised
ExistsRaisesNotDir ==
  /\ pc = "done" /\ op = "exists"
  /\ result.kind = "throw" /\ result.code = "ENOTDIR"

----------------------------------------------------------------------------
(* Properties of the watch multiplexer *)

\* no watch call awaits its subscription and no unsubscribe() is in progress
Quiescent == closing = {} /\ \A r \in RegIds : regState[r] # "subscribing"

\* C6: at most one native subscription exists at any time, and every one
\* that exists is held in this._watcher or is being unsubscribed.
SingleSubscription ==
  /\ Cardinality(alive) <= 1
  /\ \A h \in alive : h = watcher \/ h \in closing

\* C7: once every pending watch / unsubscribe call has completed, a native
\* subscription exists if and only if the registration set is non-empty.
SubscriptionFollowsSet ==
  Quiescent => (alive # {} <=> watchCallbacks # {})

\* C8: a native event delivered to the handler given at subscription
\* creation notifies each current entry once, with the absolute-style path
\* if its glob matches that form, else with the relative-style path if its
\* glob matches that one, else not at all; other callbacks do not fire.
FanOut ==
  (notified.kind = "handled" /\ ~notified.failed /\ Len(notified.events) > 0)
  => /\ ~notified.threw
     /\ \A r \in RegIds :
          notified.fired[r] =
            IF r \in notified.entries
            THEN FireFor(regGlob[r], notified.events[1]) ELSE <<>>

\* C17: an error reported by the native subscription reaches the error
\* callback of every entry of the set once, whatever the entry's glob, as
\* the value wrapVFSErr makes of it (canonical code kept, cancellation and
\* canonical errors unchanged); the handler does not raise and no event
\* callback fires.
ErrorBroadcast ==
  (notified.kind = "handled" /\ notified.failed) =>
    /\ ~notified.threw
    /\ \A r \in RegIds : notified.errs[r] = (IF r \in notified.entries THEN 1 ELSE 0)
    /\ notified.entries # {} => notified.delivered = WrapVFSErr(notified.err)
    /\ \A r \in RegIds : notified.fired[r] = <<>>

\* C19: a watch call whose subscription failed leaves no entry in the set,
\* so that, once the calls in progress have completed and every registered
\* entry has been removed, the set is empty and no native subscription is
\* left.
FailedWatchLeavesNoTrace ==
  /\ \A r \in RegIds : regState[r] = "failed" => r \notin watchCallbacks
  /\ ( /\ Quiescent
       /\ \A r \in RegIds : regState[r] = "registered" => unsubCalls[r] >= 1 )
     => watchCallbacks = {} /\ alive = {}

\* C20: from the first invocation of an entry's unsubscribe function on, no
\* notification reaches that entry's callbacks, while an event still reaches
\* the entries that remain; invoking the function again changes nothing and
\* does not fail.
NoNotificationAfterUnsubscribe ==
  /\ (notified.kind = "handled") =>
       \A r \in RegIds :
         (unsubCalls[r] >= 1 /\ r \notin notified.entries)
           => notified.errs[r] = 0 /\ notified.fired[r] = <<>>
  /\ \A r \in RegIds : unsubCalls[r] >= 1 => r \notin watchCallbacks
  /\ ( /\ notified.kind = "handled" /\ ~notified.failed /\ Len(notified.events) > 0 )
     => \A r \in notified.entries :
          notified.fired[r] = FireFor(regGlob[r], notified.events[1])
  /\ rejected = {}

----------------------------------------------------------------------------
(* Properties of error normalization *)

\* a host error: an Error that is neither a cancellation nor canonical already
IsHostError(e) == e.kind = "error" /\ e.name \notin {"AbortError", "VFSError"}

ScenarioC == Err("Error", "ENOENT", Chars("ENOENT") \o <<":", " ">> \o NoSuchFile, NoCause)

\* C14: wrapVFSErr turns a host error into a VFSError whose code is the host
\* code when that is canonical and EUNKNOWN otherwise; with a canonical code
\* a leading "<code>: " is gone from the message (and nothing else is), with
\* any other code the message is the host's; the host error is the cause;
\* the code of every VFSError returned is canonical.
NormalizationResult ==
  /\ (errLayers >= 1 /\ IsHostError(errOrigin)) =>
       LET known == errOrigin.code \in allowedErrorTypes
           prefix == Chars(errOrigin.code) \o <<":", " ">>
       IN  /\ errFirst.name = "VFSError"
           /\ errFirst.code = (IF known THEN errOrigin.code ELSE "EUNKNOWN")
           /\ errFirst.cause = errOrigin
           /\ (known /\ StartsWith(errOrigin.message, prefix))
                => prefix \o errFirst.message = errOrigin.message
           /\ ~(known /\ StartsWith(errOrigin.message, prefix))
                => errFirst.message = errOrigin.message
  /\ (errLayers >= 1 /\ errOrigin = ScenarioC) =>
       errFirst = Err("VFSError", "ENOENT", NoSuchFile, ScenarioC)
  /\ (errLayers >= 1 /\ errFirst.name = "VFSError") => errFirst.code \in allowedErrorTypes

\* C14 witness: a host error with a canonical code and the code as message
\* prefix has been normalized
NormalizationWitness ==
  /\ errLayers >= 1 /\ IsHostError(errOrigin)
  /\ errOrigin.code = "ENOENT"
  /\ StartsWith(errOrigin.message, Chars("ENOENT") \o <<":", " ">>)
  /\ errFirst.message = NoSuchFile

\* C15: a cancellation and an already-canonical error come out of wrapVFSErr
\* as the value that went in; whatever the first layer returned, every
\* further layer returns that same value (code, message and cause), and its
\* cause is never a canonical error.
NormalizedOnce ==
  /\ (errLayers >= 1 /\ errOrigin.kind = "error"
       /\ errOrigin.name \in {"AbortError", "VFSError"}) => errNow = errOrigin
  /\ errLayers >= 1 => errNow = errFirst
  /\ (errLayers >= 1 /\ errNow.cause # NoCause) => errNow.cause.name # "VFSError"
  /\ (errLayers >= 1 /\ IsHostError(errOrigin)) => errNow.cause = errOrigin

\* C15 witness: a host error has crossed two layers
NormalizedOnceWitness ==
  /\ errLayers >= 2 /\ IsHostError(errOrigin) /\ errNow.name = "VFSError"

\* C15 witness: an already-canonical error has crossed two layers
CanonicalPassesWitness ==
  /\ errLayers >= 2 /\ errOrigin \in CanonicalErrors /\ errNow = errOrigin

----------------------------------------------------------------------------
(* Properties of the streams *)

\* C12: the streaming operations return a stream at once, and a failure that
\* happens while that stream is live (gen() rejects, or the host stream
\* emits a native error) ends the stream with that failure, normalized: the
\* stream is errored with a VFSError of canonical code, and no error is left
\* without anybody to receive it.
DeferredFailure ==
  /\ stOp # "none" => stWeb.state \in {"open", "closed", "errored"}
  /\ stFailed # NoError =>
       /\ stWeb.state = "errored"
       /\ stWeb.err = WrapVFSErr(stFailed)
       /\ stWeb.err.code \in allowedErrorTypes
  /\ stFailed # NoError => stFailed \notin stUncaught

\* C13: when the signal is triggered while the stream is live, before or
\* after gen() has produced the host stream, the stream is errored and the
\* error the consumer meets is the AbortError itself.
CancellationSurfaces ==
  stCancelled => stWeb.state = "errored" /\ stWeb.err = AbortError

\* C18: in a write or append stream the chunks written go, in order and
\* without loss, through out into the host file stream once gen() has
\* produced it: out is piped into the host stream, which stays usable, and
\* every chunk written is in the file or still held in out.
WriteDelivery ==
  (IsWrite(stOp) /\ stGen = "resolved") =>
    /\ stPipe = "outToHost"
    /\ stHost.state \in {"opening", "open"}
    /\ stFile \o stBuffer = stWritten

====
